---- MODULE Spec2Model ----
(***************************************************************************)
(* pigeon-server: the shared State (users, messages) behind one RwLock,    *)
(* and the three request handlers register, send and recv that run as      *)
(* concurrent tasks on it.                                                 *)
(*                                                                         *)
(* Every `state.read()` / `state.write()` guard in the handlers is a       *)
(* temporary that lives for one statement, so each guarded statement is    *)
(* one atomic action here and the lock is free between any two actions.    *)
(* The wall clock is the system's real-time clock, read in whole seconds   *)
(* since the epoch: it can be set to any value, back as well as forward,   *)
(* and to a time before the epoch, where reading it fails.                 *)
(*                                                                         *)
(* Spec is the server with its guarded statements atomic. SpecShutdown     *)
(* splits every guarded statement into the acquisition of its guard and    *)
(* the statement, and adds the main thread saving the state on ctrl-c.     *)
(* SpecLoad is the construction of the state from the two snapshot files,  *)
(* SpecAuth the function auth on its own, SpecForward the server of Spec   *)
(* while nobody sets the clock back.                                       *)
(***************************************************************************)
EXTENDS Integers, Sequences, FiniteSets, TLC

\* ---- bounds of the model ------------------------------------------------
NumTasks == 2
MaxRequests == 4
MaxClock == 3
MaxRecipients == 2
\* requests served in SpecShutdown
MaxShutdownRequests == 2
\* the largest `timestamp` a recv asks for
MaxSince == 1

\* ---- program constants --------------------------------------------------
BCRYPT_COST == 12
SALT == "Hello, world!!!!"

\* ---- input alphabets ----------------------------------------------------
Usernames == {"alice", "bob"}
Passwords == {"pw1", "pw2"}
Contents == {"hi"}
Tasks == 1..NumTasks
Timestamps == 0..MaxClock
\* the system clock, in whole seconds from the epoch: a time before the
\* epoch (-1), the second of the epoch itself (0), or a second after it
ClockValues == -1..MaxClock
\* the `timestamp` of a recv, a u64: 0 is below every key but key 0
Sinces == 0..MaxSince
\* the recipients of a message: up to MaxRecipients names, none twice
RecipientLists ==
    {rs \in UNION {[1..n -> Usernames] : n \in 0..MaxRecipients} :
        \A i, j \in 1..Len(rs) : rs[i] = rs[j] => i = j}

VARIABLES users, messages, clock, pc, req, hash, idx, current_time, resp, nreq,
          main_pc, users_file, messages_file, guard, main_guard, auth_call

vars ==
    <<users, messages, clock, pc, req, hash, idx, current_time, resp, nreq,
      main_pc, users_file, messages_file, guard, main_guard, auth_call>>

\* the main thread's variables
main_vars == <<main_pc, users_file, messages_file, main_guard>>

\* ---- data ---------------------------------------------------------------
EmptyMap == [k \in {} |-> k]

Message(author, content, recipients) ==
    [author |-> author, content |-> content, recipients |-> recipients]

RegInfo == [op : {"register"}, username : Usernames, password : Passwords]

SendInfo ==
    {[op |-> "send", password |-> pw, message |-> Message(a, c, rs)] :
        pw \in Passwords, a \in Usernames, c \in Contents, rs \in RecipientLists}

RecvInfo ==
    [op : {"recv"}, username : Usernames, password : Passwords,
     timestamp : Sinces]

NoRequest == [op |-> "none"]
NoCall == [called |-> FALSE]

\* a String: text that serde_json parses to the wanted type, as the JSON
\* object it holds, or text that it does not
EmptyString == [wellformed |-> FALSE, object |-> {}]
Garbage == [wellformed |-> FALSE, object |-> {<<"garbage", "garbage">>}]

\* a file of the working directory
NoFile == [exists |-> FALSE, text |-> EmptyString]
File(text) == [exists |-> TRUE, text |-> text]
NoResponse == [status |-> "NONE", body |-> <<>>]

\* ---- library and pure functions -----------------------------------------
\* bcrypt::hash_with_salt(password, cost, salt).to_string(): deterministic in
\* (password, cost, salt) and one-to-one on the passwords of the model. The
\* salt has its fixed length by type and null bytes are hashed like any other,
\* so the one error left is a cost outside bcrypt's 4..31.
hash_with_salt(password, cost, salt) ==
    IF cost \notin 4..31
    THEN [ok |-> FALSE, value |-> ""]
    ELSE [ok |-> TRUE, value |-> <<"$2b$", cost, salt, password>>]

contains_key(map, key) == key \in DOMAIN map

\* HashMap::insert: adds the entry, or replaces the value of an existing key
insert(map, key, value) ==
    [k \in DOMAIN map \cup {key} |-> IF k = key THEN value ELSE map[k]]

\* Vec::contains
contains(seq, x) == \E i \in 1..Len(seq) : seq[i] = x

\* UNIX_EPOCH.elapsed(): an error when the clock is before the epoch
elapsed ==
    IF clock < 0 THEN [ok |-> FALSE, secs |-> 0] ELSE [ok |-> TRUE, secs |-> clock]

\* .as_secs() of the duration
elapsed_secs == elapsed.secs

\* mutant: the seconds are read one behind the clock
sample_timestamp_behind ==
    IF elapsed_secs > 1 THEN elapsed_secs - 1 ELSE elapsed_secs

\* the BTreeMap key an append uses: the clock value read inside the call
sample_timestamp == elapsed_secs

\* mutant: BTreeMap::insert, which replaces the sequence of the key
entry_replace(msgs, timestamp, message) ==
    [t \in DOMAIN msgs \cup {timestamp} |->
        IF t = timestamp THEN <<message>> ELSE msgs[t]]

\* entry(timestamp).and_modify(push).or_insert_with(vec![message])
entry_push(msgs, timestamp, message) ==
    IF timestamp \in DOMAIN msgs
    THEN [msgs EXCEPT ![timestamp] = Append(@, message)]
    ELSE [t \in DOMAIN msgs \cup {timestamp} |->
            IF t = timestamp THEN <<message>> ELSE msgs[t]]

\* mutant: the author check is left out
add_message_unchecked(us, msgs, message) ==
    IF ~elapsed.ok
    THEN [ok |-> FALSE, err |-> "SystemTimeError", messages |-> msgs]
    ELSE [ok |-> TRUE, err |-> "none",
          messages |-> entry_push(msgs, sample_timestamp, message)]

\* State::add_message_at_present on the state (us, msgs): the clock is read
\* first, with `?`, then the author is looked up
add_message_at_present(us, msgs, message) ==
    LET timestamp == sample_timestamp IN
    IF ~elapsed.ok
    THEN [ok |-> FALSE, err |-> "SystemTimeError", messages |-> msgs]
    ELSE IF ~contains_key(us, message.author)
    THEN [ok |-> FALSE, err |-> "NonExistentMessageAuthor", messages |-> msgs]
    ELSE [ok |-> TRUE, err |-> "none",
          messages |-> entry_push(msgs, timestamp, message)]

\* mutant: an unknown username is an error
auth_unknown_is_error(us, username, password, cost, salt) ==
    LET h == hash_with_salt(password, cost, salt) IN
    IF ~h.ok \/ ~contains_key(us, username)
    THEN [ok |-> FALSE, value |-> FALSE]
    ELSE [ok |-> TRUE, value |-> us[username] = h.value]

\* mutant: the stored hash is not compared
auth_existence_only(us, username, password, cost, salt) ==
    LET h == hash_with_salt(password, cost, salt) IN
    IF ~h.ok
    THEN [ok |-> FALSE, value |-> FALSE]
    ELSE [ok |-> TRUE, value |-> contains_key(us, username)]

\* auth: the hash is computed first, then the lookup
auth(us, username, password, cost, salt) ==
    LET h == hash_with_salt(password, cost, salt) IN
    IF ~h.ok
    THEN [ok |-> FALSE, value |-> FALSE]
    ELSE [ok |-> TRUE,
          value |-> contains_key(us, username) /\ us[username] = h.value]

Min(S) == CHOOSE x \in S : \A y \in S : x <= y

Max(S) == CHOOSE x \in S : \A y \in S : x >= y

RECURSIVE Descending(_)
\* mutant: the keys are visited largest first
Descending(S) ==
    IF S = {} THEN <<>> ELSE <<Max(S)>> \o Descending(S \ {Max(S)})

RECURSIVE Ascending(_)
\* BTreeMap::iter visits the keys in ascending order
Ascending(S) ==
    IF S = {} THEN <<>> ELSE <<Min(S)>> \o Ascending(S \ {Min(S)})

\* mutant: the upper bound of the range taken inclusive
in_range_upper_inclusive(ts, since, now) == ts <= now /\ ts > since

\* the filter of recv's outer iterator
in_range(ts, since, now) == ts < now /\ ts > since

\* mutant: the filter tests the author instead of the recipients
recipient_filter_on_author(msg, username) == msg.author = username

\* the filter of recv's inner iterator
recipient_filter(msg, username) == contains(msg.recipients, username)

\* mutant: the messages of one timestamp are visited last first
entries_at_reversed(msgs, ts, username) ==
    LET kept == SelectSeq(msgs[ts], LAMBDA m : recipient_filter(m, username))
    IN  [i \in 1..Len(kept) |-> <<ts, kept[Len(kept) + 1 - i]>>]

\* msgs.iter().filter(..).map(|msg| (ts, msg.clone()))
entries_at(msgs, ts, username) ==
    LET kept == SelectSeq(msgs[ts], LAMBDA m : recipient_filter(m, username))
    IN  [i \in 1..Len(kept) |-> <<ts, kept[i]>>]

RECURSIVE flat_map(_, _, _)
flat_map(msgs, keys, username) ==
    IF keys = <<>> THEN <<>>
    ELSE entries_at(msgs, Head(keys), username)
            \o flat_map(msgs, Tail(keys), username)

\* the Vec<(u64, Message)> recv collects
recv_collect(msgs, username, since, now) ==
    flat_map(msgs,
             SelectSeq(Ascending(DOMAIN msgs),
                       LAMBDA ts : in_range(ts, since, now)),
             username)

\* serde_json::to_string of a map: the JSON object of its entries
to_string(map) ==
    [wellformed |-> TRUE, object |-> {<<k, map[k]>> : k \in DOMAIN map}]

\* serde_json::from_str(..).unwrap_or_else(|_| empty map)
from_str_or_empty(text) ==
    IF text.wellformed
    THEN [k \in {e[1] : e \in text.object} |->
            (CHOOSE e \in text.object : e[1] = k)[2]]
    ELSE EmptyMap

\* fs::read_to_string(path).unwrap_or_else(|_| String::new())
read_to_string_or_empty(file) ==
    IF file.exists THEN file.text ELSE EmptyString

\* fs::write(path, text), as the outcomes it can have: the file holds the
\* text; or the file cannot be created and stays as it was; or it is created
\* (and so emptied) and the text does not get into it whole, which leaves
\* text that does not parse
write(file, text) ==
    {[ok |-> TRUE, file |-> File(text)],
     [ok |-> FALSE, file |-> file],
     [ok |-> FALSE, file |-> File(Garbage)]}

\* ---- initial state ------------------------------------------------------
\* no snapshot files: both structures start empty
Init ==
    /\ users = EmptyMap
    /\ messages = EmptyMap
    /\ clock = 1
    /\ pc = [p \in Tasks |-> "idle"]
    /\ req = [p \in Tasks |-> NoRequest]
    /\ hash = [p \in Tasks |-> ""]
    /\ idx = [p \in Tasks |-> 0]
    /\ current_time = [p \in Tasks |-> 0]
    /\ resp = [p \in Tasks |-> NoResponse]
    /\ nreq = 0
    /\ main_pc = "serving"
    /\ users_file = NoFile
    /\ messages_file = NoFile
    /\ guard = [p \in Tasks |-> "none"]
    /\ main_guard = "none"
    /\ auth_call = NoCall

\* ---- helpers of the actions ---------------------------------------------
\* the handler returns `status` (and `body`) to the caller
Return(p, status, body) ==
    /\ pc' = [pc EXCEPT ![p] = "idle"]
    /\ resp' = [resp EXCEPT ![p] = [status |-> status, body |-> body]]

\* the handler panics: its task ends and the caller gets no response
Panic(p) ==
    /\ pc' = [pc EXCEPT ![p] = "idle"]
    /\ resp' = [resp EXCEPT ![p] = [status |-> "PANICKED", body |-> <<>>]]

Goto(p, label) ==
    /\ pc' = [pc EXCEPT ![p] = label]
    /\ UNCHANGED resp

\* ---- a request arrives and its handler task starts -----------------------
Arrive(p) ==
    /\ pc[p] = "idle"
    /\ nreq < MaxRequests
    /\ \E r \in RegInfo \cup SendInfo \cup RecvInfo :
        /\ req' = [req EXCEPT ![p] = r]
        /\ pc' = [pc EXCEPT ![p] =
                    CASE r.op = "register" -> "register_check"
                      [] r.op = "send" -> "send_auth"
                      [] r.op = "recv" -> "recv_auth"]
    /\ nreq' = nreq + 1
    /\ hash' = [hash EXCEPT ![p] = ""]
    /\ idx' = [idx EXCEPT ![p] = 0]
    /\ current_time' = [current_time EXCEPT ![p] = 0]
    /\ resp' = [resp EXCEPT ![p] = NoResponse]
    /\ UNCHANGED <<users, messages, clock>>

\* ---- register -----------------------------------------------------------
\* the existence check under a read guard, then the hash (no guard held)
RegisterCheck(p) ==
    /\ pc[p] = "register_check"
    /\ LET h == hash_with_salt(req[p].password, BCRYPT_COST, SALT) IN
        IF contains_key(users, req[p].username)
        THEN Return(p, "CONFLICT", <<>>) /\ UNCHANGED hash
        ELSE IF ~h.ok
        THEN Return(p, "INTERNAL_SERVER_ERROR", <<>>) /\ UNCHANGED hash
        ELSE Goto(p, "register_insert")
                /\ hash' = [hash EXCEPT ![p] = h.value]
    /\ UNCHANGED <<users, messages, clock, req, idx, current_time, nreq>>

\* state.write().users.insert(username, hash)
RegisterInsert(p) ==
    /\ pc[p] = "register_insert"
    /\ users' = insert(users, req[p].username, hash[p])
    /\ Return(p, "OK", <<>>)
    /\ UNCHANGED <<messages, clock, req, hash, idx, current_time, nreq>>

\* ---- send ---------------------------------------------------------------
\* auth(&state.read(), author, password, ..) under one read guard
SendAuth(p) ==
    /\ pc[p] = "send_auth"
    /\ LET a == auth(users, req[p].message.author, req[p].password,
                     BCRYPT_COST, SALT) IN
        IF ~a.ok
        THEN Return(p, "INTERNAL_SERVER_ERROR", <<>>) /\ UNCHANGED idx
        ELSE IF ~a.value
        THEN Return(p, "UNAUTHORIZED", <<>>) /\ UNCHANGED idx
        ELSE IF Len(req[p].message.recipients) = 0
        THEN Goto(p, "send_append") /\ UNCHANGED idx
        ELSE Goto(p, "send_recipients") /\ idx' = [idx EXCEPT ![p] = 1]
    /\ UNCHANGED <<users, messages, clock, req, hash, current_time, nreq>>

\* mutant: the loop stops after the first recipient
SendRecipientFirstOnly(p) ==
    /\ pc[p] = "send_recipients"
    /\ LET rs == req[p].message.recipients IN
        IF ~contains_key(users, rs[idx[p]])
        THEN Return(p, "NOT_ACCEPTABLE", <<>>) /\ idx' = [idx EXCEPT ![p] = 0]
        ELSE Goto(p, "send_append") /\ idx' = [idx EXCEPT ![p] = 0]
    /\ UNCHANGED <<users, messages, clock, req, hash, current_time, nreq>>

\* one iteration of the recipients loop: a read guard of its own
SendRecipient(p) ==
    /\ pc[p] = "send_recipients"
    /\ LET rs == req[p].message.recipients IN
        IF ~contains_key(users, rs[idx[p]])
        THEN Return(p, "NOT_ACCEPTABLE", <<>>) /\ idx' = [idx EXCEPT ![p] = 0]
        ELSE IF idx[p] = Len(rs)
        THEN Goto(p, "send_append") /\ idx' = [idx EXCEPT ![p] = 0]
        ELSE Goto(p, "send_recipients") /\ idx' = [idx EXCEPT ![p] = idx[p] + 1]
    /\ UNCHANGED <<users, messages, clock, req, hash, current_time, nreq>>

\* state.write().add_message_at_present(message)
SendAppend(p) ==
    /\ pc[p] = "send_append"
    /\ LET r == add_message_at_present(users, messages, req[p].message) IN
        /\ messages' = r.messages
        /\ IF r.ok
           THEN Return(p, "OK", <<>>)
           ELSE Return(p, "INTERNAL_SERVER_ERROR", <<>>)
    /\ UNCHANGED <<users, clock, req, hash, idx, current_time, nreq>>

\* ---- recv ---------------------------------------------------------------
RecvAuth(p) ==
    /\ pc[p] = "recv_auth"
    /\ LET a == auth(users, req[p].username, req[p].password,
                     BCRYPT_COST, SALT) IN
        IF ~a.ok
        THEN Return(p, "INTERNAL_SERVER_ERROR", <<>>)
        ELSE IF ~a.value
        THEN Return(p, "UNAUTHORIZED", <<>>)
        ELSE Goto(p, "recv_time")
    /\ UNCHANGED <<users, messages, clock, req, hash, idx, current_time, nreq>>

\* let current_time = UNIX_EPOCH.elapsed().unwrap().as_secs(): no guard held
RecvTime(p) ==
    /\ pc[p] = "recv_time"
    /\ IF elapsed.ok
       THEN /\ current_time' = [current_time EXCEPT ![p] = elapsed_secs]
            /\ Goto(p, "recv_read")
       ELSE /\ Panic(p)
            /\ UNCHANGED current_time
    /\ UNCHANGED <<users, messages, clock, req, hash, idx, nreq>>

\* the filtered scan of state.read().messages, one read guard for all of it
RecvRead(p) ==
    /\ pc[p] = "recv_read"
    /\ Return(p, "OK",
              recv_collect(messages, req[p].username, req[p].timestamp,
                           current_time[p]))
    /\ UNCHANGED <<users, messages, clock, req, hash, idx, current_time, nreq>>

\* ---- the wall clock -----------------------------------------------------
\* time passes, or the system clock is set
Tick ==
    /\ \E c \in ClockValues : c # clock /\ clock' = c
    /\ UNCHANGED <<users, messages, pc, req, hash, idx, current_time, resp, nreq>>

\* a step of the server that takes and drops whatever guard its statement
\* needs within the step, the main thread waiting for ctrl-c
Atomic(A) == A /\ UNCHANGED <<main_vars, guard, auth_call>>

Next ==
    \/ \E p \in Tasks : Atomic(Arrive(p))
    \/ \E p \in Tasks : Atomic(RegisterCheck(p))
    \/ \E p \in Tasks : Atomic(RegisterInsert(p))
    \/ \E p \in Tasks : Atomic(SendAuth(p))
    \/ \E p \in Tasks : Atomic(SendRecipient(p))
    \/ \E p \in Tasks : Atomic(SendAppend(p))
    \/ \E p \in Tasks : Atomic(RecvAuth(p))
    \/ \E p \in Tasks : Atomic(RecvTime(p))
    \/ \E p \in Tasks : Atomic(RecvRead(p))
    \/ Atomic(Tick)

Spec == Init /\ [][Next]_vars

TypeOK ==
    /\ DOMAIN users \subseteq Usernames
    /\ DOMAIN messages \subseteq Timestamps
    /\ clock \in ClockValues
    /\ nreq \in 0..MaxRequests

\* ---- the server while the clock is not set back ---------------------------
\* the server can start at any clock value
InitForward ==
    /\ users = EmptyMap
    /\ messages = EmptyMap
    /\ clock \in ClockValues
    /\ pc = [p \in Tasks |-> "idle"]
    /\ req = [p \in Tasks |-> NoRequest]
    /\ hash = [p \in Tasks |-> ""]
    /\ idx = [p \in Tasks |-> 0]
    /\ current_time = [p \in Tasks |-> 0]
    /\ resp = [p \in Tasks |-> NoResponse]
    /\ nreq = 0
    /\ main_pc = "serving"
    /\ users_file = NoFile
    /\ messages_file = NoFile
    /\ guard = [p \in Tasks |-> "none"]
    /\ main_guard = "none"
    /\ auth_call = NoCall

\* time passes, the clock being set forward or not at all
TickForward == Tick /\ clock' > clock

NextForward ==
    \/ \E p \in Tasks : Atomic(Arrive(p))
    \/ \E p \in Tasks : Atomic(RegisterCheck(p))
    \/ \E p \in Tasks : Atomic(RegisterInsert(p))
    \/ \E p \in Tasks : Atomic(SendAuth(p))
    \/ \E p \in Tasks : Atomic(SendRecipient(p))
    \/ \E p \in Tasks : Atomic(SendAppend(p))
    \/ \E p \in Tasks : Atomic(RecvAuth(p))
    \/ \E p \in Tasks : Atomic(RecvTime(p))
    \/ \E p \in Tasks : Atomic(RecvRead(p))
    \/ Atomic(TickForward)

SpecForward == InitForward /\ [][NextForward]_vars

\* ---- auth on its own ----------------------------------------------------
\* the Directories that register builds, and the costs auth is called with:
\* the configured one and the ends of bcrypt's range, from both sides
StoredHashes ==
    {hash_with_salt(pw, BCRYPT_COST, SALT).value : pw \in Passwords}
Directories == UNION {[D -> StoredHashes] : D \in SUBSET Usernames}
Costs == {3, 4, BCRYPT_COST, 31, 32}

InitAuth ==
    /\ users \in Directories
    /\ messages = EmptyMap
    /\ clock = 1
    /\ pc = [p \in Tasks |-> "idle"]
    /\ req = [p \in Tasks |-> NoRequest]
    /\ hash = [p \in Tasks |-> ""]
    /\ idx = [p \in Tasks |-> 0]
    /\ current_time = [p \in Tasks |-> 0]
    /\ resp = [p \in Tasks |-> NoResponse]
    /\ nreq = 0
    /\ main_pc = "serving"
    /\ users_file = NoFile
    /\ messages_file = NoFile
    /\ guard = [p \in Tasks |-> "none"]
    /\ main_guard = "none"
    /\ auth_call = NoCall

\* a call of auth on the state, with its result
AuthCall ==
    /\ \E username \in Usernames, password \in Passwords, cost \in Costs :
        auth_call' =
            [called |-> TRUE, username |-> username, password |-> password,
             cost |-> cost,
             result |-> auth(users, username, password, cost, SALT)]
    /\ UNCHANGED <<users, messages, clock, pc, req, hash, idx, current_time,
                   resp, nreq, main_vars, guard>>

NextAuth == AuthCall

SpecAuth == InitAuth /\ [][NextAuth]_vars

\* ---- construction of the state from the snapshot files ------------------
\* what the two files can hold at startup: nothing (no file), text that does
\* not parse, or a snapshot
Logs ==
    {EmptyMap} \cup
    {[k \in {t} |-> <<Message(a, c, rs)>>] :
        t \in 1..MaxClock,
        a \in Usernames, c \in Contents, rs \in RecipientLists}
UsersFiles ==
    {NoFile, File(EmptyString), File(Garbage)} \cup
    {File(to_string(d)) : d \in Directories}
MessagesFiles ==
    {NoFile, File(EmptyString), File(Garbage)} \cup
    {File(to_string(l)) : l \in Logs}

InitLoad ==
    /\ users = EmptyMap
    /\ messages = EmptyMap
    /\ clock = 1
    /\ pc = [p \in Tasks |-> "idle"]
    /\ req = [p \in Tasks |-> NoRequest]
    /\ hash = [p \in Tasks |-> ""]
    /\ idx = [p \in Tasks |-> 0]
    /\ current_time = [p \in Tasks |-> 0]
    /\ resp = [p \in Tasks |-> NoResponse]
    /\ nreq = 0
    /\ main_pc = "load"
    /\ users_file \in UsersFiles
    /\ messages_file \in MessagesFiles
    /\ guard = [p \in Tasks |-> "none"]
    /\ main_guard = "none"
    /\ auth_call = NoCall

\* mutant: one failure discards both snapshots
LoadAllOrNothing ==
    /\ main_pc = "load"
    /\ LET utext == read_to_string_or_empty(users_file)
           mtext == read_to_string_or_empty(messages_file)
           both == utext.wellformed /\ mtext.wellformed
       IN /\ users' = IF both THEN from_str_or_empty(utext) ELSE EmptyMap
          /\ messages' = IF both THEN from_str_or_empty(mtext) ELSE EmptyMap
    /\ main_pc' = "serving"
    /\ UNCHANGED <<clock, pc, req, hash, idx, current_time, resp, nreq,
                   users_file, messages_file, main_guard, guard, auth_call>>

\* main builds the state: each file is read and parsed on its own, a failure
\* of either step is logged and gives the empty structure
Load ==
    /\ main_pc = "load"
    /\ users' = from_str_or_empty(read_to_string_or_empty(users_file))
    /\ messages' = from_str_or_empty(read_to_string_or_empty(messages_file))
    /\ main_pc' = "serving"
    /\ UNCHANGED <<clock, pc, req, hash, idx, current_time, resp, nreq,
                   users_file, messages_file, main_guard, guard, auth_call>>

NextLoad == Load

SpecLoad == InitLoad /\ [][NextLoad]_vars

\* ---- the server restarted on the files of an earlier run ----------------
\* what an earlier run saved: alice registered, and her one message to
\* herself, of second 1
SavedDirectory ==
    [u \in {"alice"} |-> hash_with_salt("pw1", BCRYPT_COST, SALT).value]
SavedLog == [k \in {1} |-> <<Message("alice", "hi", <<"alice">>)>>]

\* main has read and parsed both files and serves
InitRestart ==
    /\ users_file = File(to_string(SavedDirectory))
    /\ messages_file = File(to_string(SavedLog))
    /\ users = from_str_or_empty(read_to_string_or_empty(users_file))
    /\ messages = from_str_or_empty(read_to_string_or_empty(messages_file))
    /\ clock = 1
    /\ pc = [p \in Tasks |-> "idle"]
    /\ req = [p \in Tasks |-> NoRequest]
    /\ hash = [p \in Tasks |-> ""]
    /\ idx = [p \in Tasks |-> 0]
    /\ current_time = [p \in Tasks |-> 0]
    /\ resp = [p \in Tasks |-> NoResponse]
    /\ nreq = 0
    /\ main_pc = "serving"
    /\ guard = [p \in Tasks |-> "none"]
    /\ main_guard = "none"
    /\ auth_call = NoCall

\* the restarted server with one connection open, its requests served one
\* after the other: the appends to the log are made one at a time under the
\* write lock and the Directory only grows, so the logs a receive can read
\* are the same as with the tasks interleaved
NextRestart ==
    \/ Atomic(Arrive(1))
    \/ Atomic(RegisterCheck(1))
    \/ Atomic(RegisterInsert(1))
    \/ Atomic(SendAuth(1))
    \/ Atomic(SendRecipient(1))
    \/ Atomic(SendAppend(1))
    \/ Atomic(RecvAuth(1))
    \/ Atomic(RecvTime(1))
    \/ Atomic(RecvRead(1))
    \/ Atomic(Tick)

SpecRestart == InitRestart /\ [][NextRestart]_vars

\* ---- the server with its lock, and the save on ctrl-c -------------------
\* the statements of the handlers that take state.read(), and state.write()
ReadStatements ==
    {"register_check", "send_auth", "send_recipients", "recv_auth", "recv_read"}
WriteStatements == {"register_insert", "send_append"}

\* RwLock: a read guard is granted while no write guard is out, a write
\* guard while no guard is out
NoWriter == main_guard # "write" /\ \A q \in Tasks : guard[q] # "write"
NoHolder == main_guard = "none" /\ \A q \in Tasks : guard[q] = "none"

\* state.read()
AcquireRead(p) ==
    /\ pc[p] \in ReadStatements
    /\ guard[p] = "none"
    /\ NoWriter
    /\ guard' = [guard EXCEPT ![p] = "read"]
    /\ UNCHANGED <<users, messages, clock, pc, req, hash, idx, current_time,
                   resp, nreq, main_vars, auth_call>>

\* state.write()
AcquireWrite(p) ==
    /\ pc[p] \in WriteStatements
    /\ NoHolder
    /\ guard' = [guard EXCEPT ![p] = "write"]
    /\ UNCHANGED <<users, messages, clock, pc, req, hash, idx, current_time,
                   resp, nreq, main_vars, auth_call>>

\* mutant: the guard outlives its statement
keep_guard(p) == guard

\* the guard is a temporary of its statement: dropped where the statement ends
drop_guard(p) == [guard EXCEPT ![p] = "none"]

\* a statement of a handler under the guard it took
UnderRead(p, A) ==
    /\ guard[p] = "read"
    /\ A
    /\ guard' = drop_guard(p)
    /\ UNCHANGED <<main_vars, auth_call>>

UnderWrite(p, A) ==
    /\ guard[p] = "write"
    /\ A
    /\ guard' = drop_guard(p)
    /\ UNCHANGED <<main_vars, auth_call>>

\* the server accepts requests as long as the process runs
ArriveShutdown(p) ==
    /\ main_pc \notin {"exited", "failed"}
    /\ nreq < MaxShutdownRequests
    /\ Atomic(Arrive(p))

\* tokio::signal::ctrl_c().await returns
CtrlC ==
    /\ main_pc = "serving"
    /\ main_pc' = "save_users"
    /\ UNCHANGED <<users, messages, clock, pc, req, hash, idx, current_time,
                   resp, nreq, users_file, messages_file, main_guard, guard,
                   auth_call>>

\* state.read() of main, once in each of its two fs::write statements
MainAcquireRead ==
    /\ main_pc \in {"save_users", "save_messages"}
    /\ main_guard = "none"
    /\ NoWriter
    /\ main_guard' = "read"
    /\ UNCHANGED <<users, messages, clock, pc, req, hash, idx, current_time,
                   resp, nreq, main_pc, users_file, messages_file, guard,
                   auth_call>>

\* fs::write(USERS_FILE, to_string(&state.read().users)?)?: on an error main
\* returns it and the process ends with the messages unsaved
SaveUsers ==
    /\ main_pc = "save_users"
    /\ main_guard = "read"
    /\ \E w \in write(users_file, to_string(users)) :
        /\ users_file' = w.file
        /\ main_pc' = IF w.ok THEN "save_messages" ELSE "failed"
    /\ main_guard' = "none"
    /\ UNCHANGED <<users, messages, clock, pc, req, hash, idx, current_time,
                   resp, nreq, messages_file, guard, auth_call>>

\* fs::write(MESSAGES_FILE, to_string(&state.read().messages)?)?, then main
\* returns, Ok(()) or the error; the handlers that are running finish
SaveMessages ==
    /\ main_pc = "save_messages"
    /\ main_guard = "read"
    /\ \E w \in write(messages_file, to_string(messages)) :
        /\ messages_file' = w.file
        /\ main_pc' = IF w.ok THEN "exited" ELSE "failed"
    /\ main_guard' = "none"
    /\ UNCHANGED <<users, messages, clock, pc, req, hash, idx, current_time,
                   resp, nreq, users_file, guard, auth_call>>

\* the statements of the handler that task p runs
HandlerStep(p) ==
    \/ UnderRead(p, RegisterCheck(p))
    \/ UnderWrite(p, RegisterInsert(p))
    \/ UnderRead(p, SendAuth(p))
    \/ UnderRead(p, SendRecipient(p))
    \/ UnderWrite(p, SendAppend(p))
    \/ UnderRead(p, RecvAuth(p))
    \/ Atomic(RecvTime(p))
    \/ UnderRead(p, RecvRead(p))

NextShutdown ==
    \/ \E p \in Tasks : ArriveShutdown(p)
    \/ \E p \in Tasks : AcquireRead(p)
    \/ \E p \in Tasks : AcquireWrite(p)
    \/ \E p \in Tasks : HandlerStep(p)
    \/ Atomic(Tick)
    \/ CtrlC
    \/ MainAcquireRead
    \/ SaveUsers
    \/ SaveMessages

SpecShutdown == Init /\ [][NextShutdown]_vars

\* the worker threads and the main thread keep running, and the lock is
\* fair: a thread that can be granted its guard again and again is granted it
FairShutdown ==
    /\ \A p \in Tasks : WF_vars(HandlerStep(p))
    /\ \A p \in Tasks : SF_vars(AcquireRead(p) \/ AcquireWrite(p))
    /\ WF_vars(SaveUsers \/ SaveMessages)
    /\ SF_vars(MainAcquireRead)

FairSpecShutdown == SpecShutdown /\ FairShutdown

\* ---- vocabulary of the claims -------------------------------------------
\* task p has returned from the handler of req[p]
Done(p) == pc[p] = "idle" /\ resp[p].status # "NONE"

\* the step is the return of p's handler
Returns(p) == pc[p] # "idle" /\ pc'[p] = "idle"

\* p is inside send, past credential verification, its append not yet made
SendVerified(p) == pc[p] \in {"send_recipients", "send_append"}

\* ---- C1 -----------------------------------------------------------------
\* C1: at most one registration of a given username succeeds: a registration
\* returns OK only for a username that is not stored when it takes effect, and
\* every attempt that finds the username stored returns CONFLICT.
C1_UniqueRegistration ==
    [][\A p \in Tasks :
        (req[p].op = "register" /\ Returns(p)) =>
            /\ resp'[p].status = "OK" => ~contains_key(users, req[p].username)
            /\ contains_key(users, req[p].username)
                    => resp'[p].status = "CONFLICT"]_vars

\* ---- C2 -----------------------------------------------------------------
\* C2: the Directory only grows and no entry is ever updated: every step
\* keeps every stored username, with the credential it had.
C2_DirectoryNeverUpdated ==
    [][\A u \in DOMAIN users :
        contains_key(users', u) /\ users'[u] = users[u]]_vars

\* ---- C3 -----------------------------------------------------------------
\* C3: the send path is one critical section: while a send is between its
\* credential verification and its append, no step changes the Directory and
\* the only step that changes the MessageLog is that send's own append.
C3_SendIsOneCriticalSection ==
    [][\A p \in Tasks :
        SendVerified(p) =>
            /\ users' = users
            /\ messages' # messages => (pc[p] = "send_append" /\ Returns(p))]_vars
\* ---- C4 -----------------------------------------------------------------
\* what the Directory + MessageLog design calls visible to `username`
Visible(msg, username) ==
    msg.recipients = <<>> \/ contains(msg.recipients, username)

\* C4: the result of a receive is exactly the messages with
\* since < timestamp < now that are broadcast (no recipients) or addressed to
\* the querier; in particular every in-range broadcast message is in it.
C4_BroadcastVisible ==
    [][\A p \in Tasks :
        (pc[p] = "recv_read" /\ Returns(p)) =>
            LET u == req[p].username
                since == req[p].timestamp
                now == current_time[p]
                body == resp'[p].body
            IN  /\ \A ts \in DOMAIN messages : \A i \in 1..Len(messages[ts]) :
                    (since < ts /\ ts < now /\ Visible(messages[ts][i], u))
                        => \E j \in 1..Len(body) :
                                body[j] = <<ts, messages[ts][i]>>
                /\ \A j \in 1..Len(body) :
                    /\ since < body[j][1] /\ body[j][1] < now
                    /\ Visible(body[j][2], u)
                    /\ body[j][1] \in DOMAIN messages
                    /\ contains(messages[body[j][1]], body[j][2])]_vars

\* ---- C5 -----------------------------------------------------------------
\* C5: every entry a receive returned has since < timestamp < now, both
\* strict, and its message has no recipients or lists the querier.
C5_RangeQueryCorrect ==
    \A p \in Tasks :
        (Done(p) /\ req[p].op = "recv" /\ resp[p].status = "OK") =>
            \A j \in 1..Len(resp[p].body) :
                /\ req[p].timestamp < resp[p].body[j][1]
                /\ resp[p].body[j][1] < current_time[p]
                /\ Visible(resp[p].body[j][2], req[p].username)

\* a receive has returned at least one entry
C5_Witness ==
    \E p \in Tasks :
        /\ Done(p) /\ req[p].op = "recv" /\ resp[p].status = "OK"
        /\ Len(resp[p].body) >= 1

\* ---- C6 -----------------------------------------------------------------
\* the state of the scenario: alice and bob registered, and the log holds
\* alice's one message "hi" to bob, at timestamp t
ScenarioMessage == Message("alice", "hi", <<"bob">>)

InScenario(t) ==
    /\ DOMAIN users = {"alice", "bob"}
    /\ messages = [k \in {t} |-> <<ScenarioMessage>>]

\* C6 as stated: in the scenario, a receive by bob with since = 0 returns
\* exactly one entry, with content "hi", and a receive by alice with since = t
\* returns nothing.
C6_ScenarioAsStated ==
    [][\A p \in Tasks : \A t \in Timestamps :
        (pc[p] = "recv_read" /\ Returns(p) /\ InScenario(t)) =>
            /\ (req[p].username = "bob" /\ req[p].timestamp = 0) =>
                    /\ Len(resp'[p].body) = 1
                    /\ resp'[p].body[1][2].content = "hi"
            /\ (req[p].username = "alice" /\ req[p].timestamp = t) =>
                    resp'[p].body = <<>>]_vars

\* C6 amended: bob's receive with since = 0 returns exactly that entry when
\* the message's timestamp t is later than 0 and the clock value the receive
\* read is later than t, and nothing otherwise (the message was stamped in
\* second 0, which since = 0 leaves out, or the receive read the clock within
\* second t or before it); alice's receive with since = t returns nothing.
C6_Scenario ==
    [][\A p \in Tasks : \A t \in Timestamps :
        (pc[p] = "recv_read" /\ Returns(p) /\ InScenario(t)) =>
            /\ (req[p].username = "bob" /\ req[p].timestamp = 0) =>
                    IF t > 0 /\ current_time[p] > t
                    THEN resp'[p].body = <<(<<t, ScenarioMessage>>)>>
                    ELSE resp'[p].body = <<>>
            /\ (req[p].username = "alice" /\ req[p].timestamp = t) =>
                    resp'[p].body = <<>>]_vars

\* bob has received the one entry of the scenario
C6_Witness ==
    \E p \in Tasks : \E t \in Timestamps :
        /\ InScenario(t)
        /\ Done(p) /\ req[p].op = "recv" /\ req[p].username = "bob"
        /\ req[p].timestamp = 0
        /\ resp[p] = [status |-> "OK", body |-> <<(<<t, ScenarioMessage>>)>>]
\* ---- C7 -----------------------------------------------------------------
\* some recipient of p's send is not in the Directory `us`
UnknownRecipient(p, us) ==
    \E i \in 1..Len(req[p].message.recipients) :
        ~contains_key(us, req[p].message.recipients[i])

\* C7 as stated: a send with a recipient that is not in the Directory returns
\* NOT_ACCEPTABLE and leaves the MessageLog as it was.
C7_UnknownRecipientAsStated ==
    [][\A p \in Tasks :
        (req[p].op = "send" /\ Returns(p) /\ UnknownRecipient(p, users')) =>
            /\ resp'[p].status = "NOT_ACCEPTABLE"
            /\ messages' = messages]_vars

\* C7 amended: a send with a recipient that is not in the Directory appends
\* nothing; it returns NOT_ACCEPTABLE when its credential check passed and
\* UNAUTHORIZED when that check, which comes first, failed. The recipients
\* loop returns NOT_ACCEPTABLE at the first recipient it finds missing.
C7_AllOrNothing ==
    [][\A p \in Tasks :
        /\ (req[p].op = "send" /\ Returns(p) /\ UnknownRecipient(p, users')) =>
            /\ messages' = messages
            /\ resp'[p].status =
                IF pc[p] = "send_auth" THEN "UNAUTHORIZED" ELSE "NOT_ACCEPTABLE"
        /\ (pc[p] = "send_recipients" /\ pc'[p] # pc[p]
                /\ ~contains_key(users, req[p].message.recipients[idx[p]])) =>
            /\ Returns(p)
            /\ resp'[p].status = "NOT_ACCEPTABLE"
            /\ messages' = messages]_vars

\* an authenticated send to one known and one unknown recipient was refused
C7_Witness ==
    \E p \in Tasks :
        /\ Done(p) /\ req[p].op = "send"
        /\ resp[p].status = "NOT_ACCEPTABLE"
        /\ Len(req[p].message.recipients) = 2
        /\ contains_key(users, req[p].message.recipients[1])
        /\ ~contains_key(users, req[p].message.recipients[2])
        /\ messages = EmptyMap

\* ---- C8 -----------------------------------------------------------------
Messages ==
    {Message(a, c, rs) : a \in Usernames, c \in Contents, rs \in RecipientLists}

\* add_message_at_present refuses every message of an unregistered author
\* and hands the log back as it was; the error is NonExistentMessageAuthor
\* when the clock, which is read first, could be read
AppendRejectsUnknownAuthor ==
    \A m \in Messages :
        ~contains_key(users, m.author) =>
            LET r == add_message_at_present(users, messages, m) IN
            /\ ~r.ok
            /\ r.err = IF clock >= 0 THEN "NonExistentMessageAuthor"
                       ELSE "SystemTimeError"
            /\ r.messages = messages

\* C8 as stated: a send whose author was never registered is failed by the
\* append, with NonExistentMessageAuthor, and the MessageLog is unchanged.
C8_SendFailsNonExistentAuthor ==
    [][\A p \in Tasks :
        (req[p].op = "send" /\ Returns(p)
                /\ ~contains_key(users', req[p].message.author)) =>
            /\ pc[p] = "send_append"
            /\ add_message_at_present(users, messages, req[p].message).err
                    = "NonExistentMessageAuthor"
            /\ messages' = messages]_vars

\* C8 amended: add_message_at_present fails for a message whose author is not
\* registered and leaves the log unchanged, with NonExistentMessageAuthor
\* unless the clock is before the epoch, where the clock error comes first; a
\* send for such an author never gets that far: its credential check returns
\* UNAUTHORIZED, and the MessageLog is unchanged.
C8_UnknownAuthorRejected ==
    /\ []AppendRejectsUnknownAuthor
    /\ [][\A p \in Tasks :
            (req[p].op = "send" /\ Returns(p)
                    /\ ~contains_key(users', req[p].message.author)) =>
                /\ pc[p] = "send_auth"
                /\ resp'[p].status = "UNAUTHORIZED"
                /\ messages' = messages]_vars

\* a send of a never-registered author was refused while the log holds the
\* message of another author
C8_Witness ==
    \E p \in Tasks :
        /\ Done(p) /\ req[p].op = "send"
        /\ ~contains_key(users, req[p].message.author)
        /\ resp[p].status = "UNAUTHORIZED"
        /\ messages # EmptyMap

\* ---- C9 -----------------------------------------------------------------
\* the supplied password hashes to the credential stored for username
CredentialMatches(us, username, password) ==
    /\ contains_key(us, username)
    /\ us[username] = hash_with_salt(password, BCRYPT_COST, SALT).value

\* C9: a send whose password does not match the stored credential of its
\* author, when the send verifies it, returns UNAUTHORIZED and appends
\* nothing, whatever its recipients; a send gets past verification only with
\* a matching password, and only the append of such a send changes the log.
C9_UnauthorizedSendAppendsNothing ==
    [][/\ \A p \in Tasks :
            /\ (pc[p] = "send_auth" /\ pc'[p] # pc[p]
                    /\ ~CredentialMatches(users, req[p].message.author,
                                          req[p].password)) =>
                /\ Returns(p)
                /\ resp'[p].status = "UNAUTHORIZED"
                /\ messages' = messages
            /\ (~SendVerified(p) /\ SendVerified(p)') =>
                /\ pc[p] = "send_auth"
                /\ CredentialMatches(users, req[p].message.author,
                                     req[p].password)
       /\ messages' # messages =>
            \E p \in Tasks :
                /\ pc[p] = "send_append" /\ Returns(p)
                /\ messages' = entry_push(messages, clock, req[p].message)]_vars

\* a send of a registered author with the wrong password and valid
\* recipients was refused
C9_Witness ==
    \E p \in Tasks :
        /\ Done(p) /\ req[p].op = "send"
        /\ resp[p].status = "UNAUTHORIZED"
        /\ contains_key(users, req[p].message.author)
        /\ ~CredentialMatches(users, req[p].message.author, req[p].password)
        /\ Len(req[p].message.recipients) >= 1
        /\ ~UnknownRecipient(p, users)

\* ---- C10 ----------------------------------------------------------------
\* C10: a successful append records its message under the clock value of the
\* step that holds the write guard, at the end of that key's sequence, and
\* that key is at least every key recorded before.
C10_MonotonicTimestamps ==
    [][\A p \in Tasks :
        (pc[p] = "send_append" /\ Returns(p) /\ resp'[p].status = "OK") =>
            /\ contains_key(messages', clock)
            /\ messages'[clock][Len(messages'[clock])] = req[p].message
            /\ DOMAIN messages' = DOMAIN messages \cup {clock}
            /\ \A k \in DOMAIN messages : k <= clock]_vars

\* ---- C11 ----------------------------------------------------------------
\* C11: a successful append whose timestamp already has a sequence pushes the
\* message onto the end of that sequence, every earlier message of the key
\* staying where it was; a fresh timestamp gets the one-message sequence; no
\* other key changes.
C11_CollisionsPreserved ==
    [][\A p \in Tasks :
        (pc[p] = "send_append" /\ Returns(p) /\ resp'[p].status = "OK") =>
            /\ messages'[clock] =
                IF contains_key(messages, clock)
                THEN Append(messages[clock], req[p].message)
                ELSE <<req[p].message>>
            /\ \A k \in DOMAIN messages :
                k # clock => (contains_key(messages', k)
                                /\ messages'[k] = messages[k])]_vars

\* one second holds two different messages, and a third append in that
\* second has completed
C11_Witness ==
    \E ts \in DOMAIN messages :
        /\ Len(messages[ts]) = 3
        /\ messages[ts][1] # messages[ts][2]

\* ---- C14 ----------------------------------------------------------------
\* C14: a send or a receive that names an unknown identity and one that names
\* a known identity with a wrong password end the same way: the
\* authentication step returns the one response UNAUTHORIZED with an empty
\* body and changes neither the Directory nor the MessageLog.
C14_GenericAuthFailure ==
    [][\A p \in Tasks :
        LET name == IF req[p].op = "send" THEN req[p].message.author
                    ELSE req[p].username
        IN  (pc[p] \in {"send_auth", "recv_auth"} /\ pc'[p] # pc[p]
                /\ ~CredentialMatches(users, name, req[p].password)) =>
                /\ resp'[p] = [status |-> "UNAUTHORIZED", body |-> <<>>]
                /\ pc'[p] = "idle"
                /\ users' = users
                /\ messages' = messages]_vars

\* one task was refused for an unknown identity, the other for a wrong
\* password of a known one, a send and a receive, with equal responses
C14_Witness ==
    \E p, q \in Tasks :
        /\ Done(p) /\ req[p].op = "send"
        /\ ~contains_key(users, req[p].message.author)
        /\ Done(q) /\ req[q].op = "recv"
        /\ contains_key(users, req[q].username)
        /\ ~CredentialMatches(users, req[q].username, req[q].password)
        /\ resp[p] = resp[q]
        /\ resp[p].status = "UNAUTHORIZED"

\* ---- C16 ----------------------------------------------------------------
\* C16: the author of every message in the MessageLog and every one of its
\* recipients is a username of the Directory.
C16_LogRefersToDirectory ==
    \A ts \in DOMAIN messages : \A i \in 1..Len(messages[ts]) :
        /\ contains_key(users, messages[ts][i].author)
        /\ \A j \in 1..Len(messages[ts][i].recipients) :
            contains_key(users, messages[ts][i].recipients[j])

\* the log holds a message to two different recipients
C16_Witness ==
    \E ts \in DOMAIN messages : \E i \in 1..Len(messages[ts]) :
        /\ Len(messages[ts][i].recipients) = 2
        /\ messages[ts][i].recipients[1] # messages[ts][i].recipients[2]

\* ---- C17 ----------------------------------------------------------------
IsPrefix(s, t) == Len(s) <= Len(t) /\ \A i \in 1..Len(s) : s[i] = t[i]

\* C17: every step keeps every timestamp key of the MessageLog with its old
\* sequence as a prefix of the new one, and the only step that changes the
\* log is the append of a send that returns OK: register steps, receive steps
\* and every send that fails leave it exactly as it was.
C17_AppendOnlyLog ==
    [][/\ \A k \in DOMAIN messages :
            contains_key(messages', k) /\ IsPrefix(messages[k], messages'[k])
       /\ messages' # messages =>
            \E p \in Tasks :
                /\ req[p].op = "send" /\ pc[p] = "send_append"
                /\ Returns(p) /\ resp'[p].status = "OK"
       /\ \A p \in Tasks :
            (pc'[p] # pc[p] /\ (req[p].op \in {"register", "recv"}
                                  \/ resp'[p].status \notin {"OK", "NONE"}))
                => messages' = messages]_vars

\* a send was refused while the log holds two messages under one key
C17_Witness ==
    /\ \E p \in Tasks :
        Done(p) /\ req[p].op = "send" /\ resp[p].status = "NOT_ACCEPTABLE"
    /\ \E k \in DOMAIN messages : Len(messages[k]) = 2

\* ---- C18 ----------------------------------------------------------------
\* the entries of body stamped ts, as messages
MessagesAt(body, ts) ==
    LET at == SelectSeq(body, LAMBDA e : e[1] = ts)
    IN  [i \in 1..Len(at) |-> at[i][2]]

\* s is t with some elements left out, the order kept
IsSubsequence(s, t) ==
    \E f \in [1..Len(s) -> 1..Len(t)] :
        /\ \A i, j \in 1..Len(s) : i < j => f[i] < f[j]
        /\ \A i \in 1..Len(s) : t[f[i]] = s[i]

\* C18: the entries of a receive's result are in ascending timestamp order,
\* and the entries of one timestamp are in the order of that timestamp's
\* sequence in the log, which is the order they were appended in.
C18_ResultOrdered ==
    [][\A p \in Tasks :
        (pc[p] = "recv_read" /\ Returns(p)) =>
            LET body == resp'[p].body IN
            /\ \A i, j \in 1..Len(body) : i < j => body[i][1] <= body[j][1]
            /\ \A ts \in DOMAIN messages :
                IsSubsequence(MessagesAt(body, ts), messages[ts])]_vars

\* a receive returned three entries: two different messages of one second,
\* in the order the log holds them, and then an entry of a later second
C18_Witness ==
    \E p \in Tasks :
        /\ Done(p) /\ req[p].op = "recv" /\ resp[p].status = "OK"
        /\ Len(resp[p].body) = 3
        /\ resp[p].body[1][1] = resp[p].body[2][1]
        /\ resp[p].body[1][2] # resp[p].body[2][2]
        /\ resp[p].body[2][1] < resp[p].body[3][1]

\* ---- C19 ----------------------------------------------------------------
\* p's receive has read the log
HasRead(p) == Done(p) /\ req[p].op = "recv" /\ resp[p].status = "OK"

\* C19: while the clock is not set back, once a receive that read the clock
\* value now has read the log, no step records a message under a timestamp
\* below now; and of two receives
\* of one user with one since, the one with the smaller now returned exactly
\* the entries of the other that lie below that now, so polling again adds
\* only entries at or after it.
C19_VisibleRangeFinal ==
    /\ [](\A p, q \in Tasks :
            (HasRead(p) /\ HasRead(q)
                /\ req[p].username = req[q].username
                /\ req[p].timestamp = req[q].timestamp
                /\ current_time[p] <= current_time[q]) =>
                resp[p].body =
                    SelectSeq(resp[q].body, LAMBDA e : e[1] < current_time[p]))
    /\ [][\A p \in Tasks :
            HasRead(p) =>
                \A k \in DOMAIN messages' :
                    (~contains_key(messages, k) \/ messages'[k] # messages[k])
                        => k >= current_time[p]]_vars

\* a receive returned an entry, and a message was recorded at or after the
\* clock value that receive had read
C19_Witness ==
    \E p \in Tasks :
        /\ HasRead(p)
        /\ Len(resp[p].body) >= 1
        /\ \E k \in DOMAIN messages : k >= current_time[p]

\* ---- C13 ----------------------------------------------------------------
\* C13: auth returns Ok(false), not an error, whenever the username is not in
\* the Directory, also when the password cannot be hashed; and it returns
\* Ok(true) exactly when the username is present and its stored hash is the
\* hash of the supplied password.
C13_UnknownUserIsFalse ==
    auth_call.called =>
        LET h == hash_with_salt(auth_call.password, auth_call.cost, SALT) IN
        /\ ~contains_key(users, auth_call.username) =>
                auth_call.result = [ok |-> TRUE, value |-> FALSE]
        /\ (auth_call.result = [ok |-> TRUE, value |-> TRUE]) <=>
                /\ contains_key(users, auth_call.username)
                /\ h.ok
                /\ users[auth_call.username] = h.value

\* ---- C15 ----------------------------------------------------------------
\* the file holds a snapshot that can be read and parsed
Loadable(file) == file.exists /\ file.text.wellformed

\* the map whose entries are the members of a JSON object
Decoded(object) ==
    [k \in {e[1] : e \in object} |-> (CHOOSE e \in object : e[1] = k)[2]]

\* C15: startup always gets past the load, and after it each structure is
\* the snapshot of its own file when that file can be read and parsed, and
\* empty when it cannot, whatever the state of the other file.
C15_LoadIndependent ==
    /\ main_pc = "load" => ENABLED Load
    /\ main_pc = "serving" =>
        /\ users = IF Loadable(users_file)
                   THEN Decoded(users_file.text.object) ELSE EmptyMap
        /\ messages = IF Loadable(messages_file)
                      THEN Decoded(messages_file.text.object) ELSE EmptyMap

\* the Directory file does not parse and the log of the other file is loaded
C15_Witness ==
    /\ main_pc = "serving"
    /\ users_file = File(Garbage)
    /\ users = EmptyMap
    /\ Loadable(messages_file)
    /\ messages # EmptyMap

\* ---- C12 ----------------------------------------------------------------
\* the names a log refers to
NamesOf(msgs) ==
    UNION {UNION {{msgs[ts][i].author} \cup
                  {msgs[ts][i].recipients[j] :
                      j \in 1..Len(msgs[ts][i].recipients)} :
                  i \in 1..Len(msgs[ts])} :
           ts \in DOMAIN msgs}

\* C12: the save on shutdown is taken from one quiescent state: main reads
\* under its guard only while no handler holds a write guard, no registration
\* and no append takes effect between its read of the Directory and its read
\* of the MessageLog, and so the two files written are the Directory and the
\* MessageLog of one state: every author and recipient of the saved log is in
\* the saved Directory.
C12_SaveFromOneState ==
    /\ [](main_guard = "read" => \A p \in Tasks : guard[p] # "write")
    /\ [][main_pc = "save_messages" =>
            users' = users /\ messages' = messages]_vars
    /\ [](main_pc = "exited" =>
            NamesOf(Decoded(messages_file.text.object))
                \subseteq DOMAIN Decoded(users_file.text.object))

\* ---- C20 ----------------------------------------------------------------
\* C20: no thread takes a guard while it holds one: a guard is held only
\* inside the statement that took it, is of the kind that statement takes,
\* and is gone when the statement is done, in the handlers and in the save;
\* a write guard is held alone; and with a fair lock every request that
\* arrived ends, with its response or, for a recv that finds the clock before
\* the epoch, with the panic of its handler, and a save that began ends: with
\* both files written, or with the error of a write. Requests being finitely
\* many, that is: from some point on no handler is running and main is not
\* in the save.
C20_NoDeadlock ==
    /\ [](\A p \in Tasks :
            /\ guard[p] = "read" => pc[p] \in ReadStatements
            /\ guard[p] = "write" =>
                    /\ pc[p] \in WriteStatements
                    /\ main_guard = "none"
                    /\ \A q \in Tasks \ {p} : guard[q] = "none")
    /\ [][\A p \in Tasks :
            /\ guard'[p] \notin {guard[p], "none"} => guard[p] = "none"
            /\ (pc'[p] # pc[p] \/ idx'[p] # idx[p]) => guard'[p] = "none"]_vars
    /\ [][/\ main_guard' \notin {main_guard, "none"} => main_guard = "none"
          /\ main_pc' # main_pc => main_guard' = "none"]_vars
    /\ <>[](/\ \A p \in Tasks : pc[p] = "idle"
            /\ main_pc \in {"serving", "exited", "failed"})
    /\ [](main_pc = "exited" =>
            users_file.text.wellformed /\ messages_file.text.wellformed)

\* a handler holds the write guard while another handler and the save, which
\* has begun, wait for the lock
C20_Witness ==
    /\ main_pc = "save_users"
    /\ main_guard = "none"
    /\ \E p, q \in Tasks :
        /\ p # q
        /\ guard[p] = "write"
        /\ pc[q] \in ReadStatements \cup WriteStatements
        /\ guard[q] = "none"

====
